---- MODULE Spec2Model ----
(***************************************************************************)
(* A model of the art_hub backend: the credential store                    *)
(* (app/database/users/users.py), the article repository and search        *)
(* ranker (app/database/articles/articles.py) and the HTTP routes that     *)
(* call them (app/routers/*.py).                                           *)
(*                                                                         *)
(* The relational store is a set of rows per table, the state after the    *)
(* last commit.  A Python call is an operator that yields a record         *)
(*   [ret |-> value returned, exc |-> exception raised or "none", ...]     *)
(* together with the table it leaves committed.  Python's True, False and  *)
(* None are the strings "True", "False" and "None".                        *)
(***************************************************************************)
EXTENDS Integers, Sequences, FiniteSets, TLC

VARIABLES
    users,          \* table users.users: rows [id, login, password, description]
    articles,       \* table articles.articles: rows [article_id, user_id, title, announcement, article_body]
    article_seq,    \* last value handed out by the article_id sequence
    article_images, \* key-value store: article_id -> sequence of image ids
    issued,         \* logins for which create_jwt has issued a token
    served,         \* number of requests served
    last,           \* the last request served and its response
    redis_strings,  \* Redis: key user:{user_id}:image:{image_id} -> bytes
    redis_lists,    \* Redis: list user:{user_id}:images, per user_id
    uuid_seq,       \* number of ids uuid.uuid4() has generated
    callers         \* the calls of app/database/users/images.py under way

vars == <<users, articles, article_seq, article_images, issued, served, last,
          redis_strings, redis_lists, uuid_seq, callers>>

\* the user image store and its callers
image_vars == <<redis_strings, redis_lists, uuid_seq, callers>>

\* the relational side, the article images and the requests
api_vars == <<users, articles, article_seq, article_images, issued, served, last>>

stores == <<users, articles, article_seq, article_images>>

(***************************************************************************)
(* Bounds of the model.                                                    *)
(***************************************************************************)
MaxArticles == 2
MaxRequests == 3

(***************************************************************************)
(* Input domains.                                                          *)
(***************************************************************************)
Logins == {"alice", "bob"}
Passwords == {"pw1", "pw2"}
Descriptions == {"", "bio"}

\* A bearer token is the login it was signed for, or a token that fails
\* verification (bad signature or expired).
InvalidToken == "<invalid>"
Tokens == issued \cup {InvalidToken}

(***************************************************************************)
(* HTTP status codes (fastapi.status).                                     *)
(***************************************************************************)
HTTP_200_OK == 200
HTTP_201_CREATED == 201
HTTP_400_BAD_REQUEST == 400
HTTP_401_UNAUTHORIZED == 401
HTTP_404_NOT_FOUND == 404
HTTP_409_CONFLICT == 409
HTTP_500_INTERNAL_SERVER_ERROR == 500

(***************************************************************************)
(* Failures of the backend connection.  users.py and articles.py catch     *)
(* (OperationalError, InterfaceError) imported from sqlite3, so a failure  *)
(* raised by the PostgreSQL driver is of another class and is handled by   *)
(* whatever clause follows.  A failure strikes when the connection is      *)
(* opened or when a statement is executed on it.                           *)
(***************************************************************************)
SqliteOperationalError == "sqlite3.OperationalError"
PgOperationalError == "psycopg2.OperationalError"
ConnExc == {SqliteOperationalError, PgOperationalError}

\* "execute" is the first statement run on the connection, "execute2" the
\* second; a call with fewer steps is not struck by a later point.
FaultPoints == {"connect", "execute", "execute2", "commit"}
NoFault == [at |-> "never", exc |-> "none"]
FaultsAt(points) == {NoFault} \cup [at : points, exc : ConnExc]
Faults == FaultsAt(FaultPoints)
\* the points at which the calls of each kind can be struck
ReadFaults == FaultsAt({"connect", "execute"})
WriteFaults == FaultsAt({"connect", "execute", "commit"})
RedisFaults == FaultsAt({"connect"})

\* except (OperationalError, InterfaceError) with the names bound by
\* "from sqlite3 import OperationalError, InterfaceError"
CaughtAsConnectionError(e) == e = SqliteOperationalError

(***************************************************************************)
(* hashlib.sha256(password.encode('utf-8')).hexdigest()                    *)
(***************************************************************************)
sha256_hexdigest(p) ==
    CASE p = "pw1" -> "c592df4a86933b92addc9842402ddf198c638ea9be58916ee6e3734e1e3152f8"
      [] p = "pw2" -> "93915a0a4bf8f634cb1856494dd4304472ad46b9827f541f76b6761c49cc55b0"
      [] p = "pw3" -> "072aa9e9fb9d5162e465d3321530463caecd59b156676fe3071997cdc1017816"

(***************************************************************************)
(* The committed contents of the stores, as one record db, and the outcome *)
(* of a call: the value returned or the exception raised, the stores as    *)
(* the call leaves them, and whether a connection failure struck the call. *)
(***************************************************************************)
Returns(v, db) ==
    [ret |-> v, exc |-> "none", db |-> db, struck |-> FALSE, opened |-> 0, closed |-> 0]
Raises(e, db) ==
    [ret |-> "None", exc |-> e, db |-> db, struck |-> FALSE, opened |-> 0, closed |-> 0]
Struck(r) == [r EXCEPT !.struck = TRUE]

\* conn = None; conn = connect_pg(): a new session, as a sequence of one
\* element, or None as <<>> when opening it fails
connect_pg(fault) == IF fault.at = "connect" THEN <<>> ELSE <<"session">>

\* the finally clause closing the session only after a return
Finally_after_return(conn, r) ==
    [r EXCEPT !.opened = Len(conn),
              !.closed = IF conn # <<>> /\ r.exc = "none" THEN 1 ELSE 0]

\* finally: if conn: conn.close(), on the outcome r of the try block;
\* opened and closed count the sessions the call opened and closed
Finally(conn, r) ==
    [r EXCEPT !.opened = Len(conn),
              !.closed = IF conn # <<>> THEN 1 ELSE 0]

(***************************************************************************)
(* Credential store: app/database/users/users.py                           *)
(***************************************************************************)
\* SELECT ... FROM users.users WHERE login = %s
UserRows(db, login) == {r \in db.users : r.login = login}

\* the id a new row of users.users gets (rows are never deleted)
NextUserId(db) == Cardinality(db.users) + 1

\* INSERT INTO users.users (login, password, description): the store refuses
\* a second row with a login it holds (errors.UniqueViolation)
UniqueViolation(db, login) == UserRows(db, login) # {}

\* insert_user storing the password as given, not its digest
insert_user_plaintext(db, user, fault) ==
    IF fault.at = "execute2"
    THEN Struck(Returns("False", db))
    ELSE IF UniqueViolation(db, user.login)
    THEN Raises("UniqueViolation", db)
    ELSE Returns("True",
                 [db EXCEPT !.users = @ \cup
                    {[id |-> NextUserId(db),
                      login |-> user.login,
                      password |-> user.password,
                      description |-> user.description]}])

insert_user(db, user, fault) ==
    IF fault.at = "execute2"
    THEN Struck(Returns("False", db))             \* except Exception: return False
    ELSE IF UniqueViolation(db, user.login)
    THEN Raises("UniqueViolation", db)            \* except errors.UniqueViolation: raise
    ELSE Returns("True",
                 [db EXCEPT !.users = @ \cup
                    {[id |-> NextUserId(db),
                      login |-> user.login,
                      password |-> sha256_hexdigest(user.password),
                      description |-> user.description]}])

\* process_user treating a duplicate login like any other failed insert
process_user_no_conflict(db, user, fault) ==
    Finally(connect_pg(fault),
        IF fault.at \in {"connect", "execute"}
        THEN Struck(Returns("None", db))
        ELSE LET ins == insert_user(db, user, fault) IN
             IF ins.exc # "none" \/ ins.ret = "False"
             THEN [ins EXCEPT !.ret = "False", !.exc = "none", !.db = db]
             ELSE IF fault.at = "commit"
             THEN Struck(Returns("None", db))
             ELSE Returns("True", ins.db)
    )

process_user(db, user, fault) ==
    Finally(connect_pg(fault),
        IF fault.at \in {"connect", "execute"}
        THEN Struck(Returns("None", db))  \* both except clauses log and fall off the end
        ELSE LET ins == insert_user(db, user, fault) IN
             IF ins.exc # "none"
             THEN Raises(ins.exc, db)                 \* except errors.UniqueViolation: raise
             ELSE IF ins.ret = "False"
             THEN [ins EXCEPT !.db = db]              \* conn.rollback(); return False
             ELSE IF fault.at = "commit"
             THEN Struck(Returns("None", db))         \* rollback in the except clause
             ELSE Returns("True", ins.db)             \* conn.commit(); return True
    )

check_credentials(db, login, password, fault) ==
    Finally(connect_pg(fault),
        IF fault.at \in {"connect", "execute"}
        THEN Struck(Raises(fault.exc, db))            \* both except clauses re-raise
        ELSE IF \E r \in db.users :
                    r.login = login /\ r.password = sha256_hexdigest(password)
        THEN Returns("True", db)
        ELSE Returns("False", db)
    )

check_login(db, login, fault) ==
    Finally(connect_pg(fault),
        IF fault.at \in {"connect", "execute"}
        THEN Struck(Raises(fault.exc, db))
        ELSE IF \E r \in db.users : r.login = login
        THEN Returns("True", db)
        ELSE Returns("False", db)
    )

\* change_password without the comparison of the old password
change_password_any_old(db, login, old_password, new_password, fault) ==
    Finally(connect_pg(fault),
        LET stored == UserRows(db, login)
            failed == IF CaughtAsConnectionError(fault.exc)
                      THEN Struck(Returns("False", db))
                      ELSE Struck(Raises(fault.exc, db))
        IN  IF fault.at \in {"connect", "execute"}
            THEN failed
            ELSE IF stored = {}
            THEN Raises("IncorrectLoginException", db)
            ELSE IF old_password = new_password
            THEN Raises("SamePasswordException", db)
            ELSE IF fault.at \in {"execute2", "commit"}
            THEN failed
            ELSE Returns("True",
                         [db EXCEPT !.users =
                            {IF r.login = login
                             THEN [r EXCEPT !.password = sha256_hexdigest(new_password)]
                             ELSE r : r \in @}])
    )

\* change_password without the comparison of the new password with the old
change_password_same_allowed(db, login, old_password, new_password, fault) ==
    Finally(connect_pg(fault),
        LET stored == UserRows(db, login)
            failed == IF CaughtAsConnectionError(fault.exc)
                      THEN Struck(Returns("False", db))
                      ELSE Struck(Raises(fault.exc, db))
        IN  IF fault.at \in {"connect", "execute"}
            THEN failed
            ELSE IF stored = {}
            THEN Raises("IncorrectLoginException", db)
            ELSE IF \E r \in stored : r.password # sha256_hexdigest(old_password)
            THEN Raises("OldPasswordMismatchException", db)
            ELSE IF fault.at \in {"execute2", "commit"}
            THEN failed
            ELSE Returns("True",
                         [db EXCEPT !.users =
                            {IF r.login = login
                             THEN [r EXCEPT !.password = sha256_hexdigest(new_password)]
                             ELSE r : r \in @}])
    )

change_password(db, login, old_password, new_password, fault) ==
    Finally(connect_pg(fault),
        LET stored == UserRows(db, login)
            \* except (OperationalError, InterfaceError): return False
            failed == IF CaughtAsConnectionError(fault.exc)
                      THEN Struck(Returns("False", db))
                      ELSE Struck(Raises(fault.exc, db))
        IN  IF fault.at \in {"connect", "execute"}
            THEN failed
            ELSE IF stored = {}
            THEN Raises("IncorrectLoginException", db)
            ELSE IF \E r \in stored : r.password # sha256_hexdigest(old_password)
            THEN Raises("OldPasswordMismatchException", db)
            ELSE IF old_password = new_password
            THEN Raises("SamePasswordException", db)
            ELSE IF fault.at \in {"execute2", "commit"}
            THEN failed
            ELSE Returns("True",
                         [db EXCEPT !.users =
                            {IF r.login = login
                             THEN [r EXCEPT !.password = sha256_hexdigest(new_password)]
                             ELSE r : r \in @}])
    )

\* cur.fetchone(): the row (id, login, description) as a sequence of one
\* element, None as the empty sequence
select_user_info(db, username, fault) ==
    Finally(connect_pg(fault),
        LET rows == UserRows(db, username) IN
        IF fault.at \in {"connect", "execute"}
        THEN Struck(Raises(fault.exc, db))
        ELSE IF rows = {}
        THEN Returns(<<>>, db)
        ELSE LET r == CHOOSE x \in rows : TRUE IN
             Returns(<<[id |-> r.id, login |-> r.login, description |-> r.description]>>, db)
    )

change_description(db, username, description, fault) ==
    Finally(connect_pg(fault),
        IF fault.at \in {"connect", "execute", "commit"}
        THEN IF CaughtAsConnectionError(fault.exc)
             THEN Struck(Returns("None", db))         \* logged, nothing raised
             ELSE Struck(Raises(fault.exc, db))
        ELSE Returns("None",
                     [db EXCEPT !.users =
                        {IF r.login = username
                         THEN [r EXCEPT !.description = description]
                         ELSE r : r \in @}])
    )

(***************************************************************************)
(* Texts.  A text is a sequence of words and a word a sequence of          *)
(* lower-case letters, so "cat hen" is <<cat, hen>>.  The words used are   *)
(* their own stems and none is a stop word.                                *)
(***************************************************************************)
cat == <<"c", "a", "t">>
cab == <<"c", "a", "b">>
dog == <<"d", "o", "g">>
pig == <<"p", "i", "g">>
hen == <<"h", "e", "n">>
owl == <<"o", "w", "l">>

\* Optional[...] values: None is <<>>, a value v is <<v>>
None == <<>>
Some(v) == <<v>>
IsNone(o) == o = <<>>

(***************************************************************************)
(* Exact fractions, for ranks and scores: [num, den] with den > 0.         *)
(***************************************************************************)
Frac(n, d) == [num |-> n, den |-> d]
FZero == Frac(0, 1)
FAdd(x, y) == Frac(x.num * y.den + y.num * x.den, x.den * y.den)
FMul(x, y) == Frac(x.num * y.num, x.den * y.den)
FEq(x, y) == x.num * y.den = y.num * x.den
FLess(x, y) == x.num * y.den < y.num * x.den
FMax(x, y) == IF FLess(x, y) THEN y ELSE x

(***************************************************************************)
(* pg_trgm                                                                 *)
(***************************************************************************)
\* the trigrams of a word padded with two blanks before and one after
WordTrigrams(w) ==
    LET padded == <<" ", " ">> \o w \o <<" ">>
    IN  {SubSeq(padded, i, i + 2) : i \in 1..(Len(padded) - 2)}

TextTrigrams(t) == UNION {WordTrigrams(t[i]) : i \in 1..Len(t)}

\* similarity(a, b): shared trigrams over all trigrams of the two texts
similarity(a, b) ==
    LET A == TextTrigrams(a)
        B == TextTrigrams(b)
    IN  IF A \cup B = {} THEN FZero
        ELSE Frac(Cardinality(A \cap B), Cardinality(A \cup B))

\* pg_trgm.similarity_threshold, 0.3 unless the database sets it
similarity_threshold == Frac(3, 10)

\* a % b
SimilarTo(a, b) == ~FLess(similarity(a, b), similarity_threshold)

(***************************************************************************)
(* Full-text search.  The lexemes of a text are its words; plainto_tsquery *)
(* asks for all the lexemes of the query.                                  *)
(***************************************************************************)
Lexemes(t) == {t[i] : i \in 1..Len(t)}

\* the text the search vector of an article is computed from
SearchText(a) == a.title \o a.announcement \o a.article_body

\* search_vector @@ plainto_tsquery('russian', q)
FtsMatch(a, q) == Lexemes(q) # {} /\ Lexemes(q) \subseteq Lexemes(SearchText(a))

\* ts_rank_cd(search_vector, tsq) for a query of one lexeme and unweighted
\* positions: 0.1 for each occurrence of the lexeme
ts_rank_cd(a, q) ==
    LET t == SearchText(a)
    IN  Frac(Cardinality({i \in 1..Len(t) : t[i] \in Lexemes(q)}), 10)

(***************************************************************************)
(* Article repository: app/database/articles/articles.py                   *)
(***************************************************************************)
\* Python truth of an Optional[int] and of an Optional[str]
TruthyInt(o) == ~IsNone(o) /\ o[1] # 0
TruthyStr(o) == ~IsNone(o) /\ o[1] # ""

\* FROM articles.articles art JOIN users.users us ON art.user_id = us.id
\* [WHERE us.login = %s]
OwnerLogins(db, a) == {u.login : u \in {x \in db.users : x.id = a.user_id}}
Joined(db, login) ==
    {a \in db.articles :
        /\ OwnerLogins(db, a) # {}
        /\ TruthyStr(login) => login[1] \in OwnerLogins(db, a)}
OwnerLogin(db, a) == CHOOSE l \in OwnerLogins(db, a) : TRUE

\* ORDER BY art.article_id DESC
RECURSIVE ByIdDesc(_)
ByIdDesc(rows) ==
    IF rows = {} THEN <<>>
    ELSE LET top == CHOOSE a \in rows : \A b \in rows : b.article_id <= a.article_id
         IN  <<top>> \o ByIdDesc(rows \ {top})

\* OFFSET offset LIMIT limit
Page(rows, offset, limit) ==
    SubSeq(rows, offset + 1, IF offset + limit < Len(rows) THEN offset + limit ELSE Len(rows))

\* the store rejects a negative OFFSET or LIMIT
BadPage(offset, limit) == offset < 0 \/ limit < 0

\* whether a call pages, and the OFFSET and LIMIT it passes
Paging(paged, amount, chunk) ==
    IF paged
    THEN [paged |-> TRUE, offset |-> (chunk[1] - 1) * amount[1], limit |-> amount[1]]
    ELSE [paged |-> FALSE, offset |-> 0, limit |-> 0]

\* if amount and chunk: query += OFFSET %s LIMIT %s
AnnouncementPaging(amount, chunk) ==
    Paging(TruthyInt(amount) /\ TruthyInt(chunk), amount, chunk)

\* the rows a query with that paging fetches, or the store's refusal
Fetched(rows, paging, db) ==
    IF paging.paged
    THEN IF BadPage(paging.offset, paging.limit)
         THEN Raises("psycopg2.DataError", db)
         ELSE Returns(Page(rows, paging.offset, paging.limit), db)
    ELSE Returns(rows, db)

select_articles_announcement(db, amount, chunk, login, fault) ==
    Finally(connect_pg(fault),
        LET rows == ByIdDesc(Joined(db, login))
            out == [i \in 1..Len(rows) |->
                        [article_id |-> rows[i].article_id,
                         title |-> rows[i].title,
                         login |-> OwnerLogin(db, rows[i]),
                         announcement |-> rows[i].announcement]]
        IN  IF fault.at \in {"connect", "execute"}
            THEN Struck(Raises(fault.exc, db))
            ELSE Fetched(out, AnnouncementPaging(amount, chunk), db)
    )

\* cur.fetchone() of the one-article queries, None as the empty sequence
ArticleById(db, article_id) ==
    {a \in Joined(db, None) : a.article_id = article_id}

select_article(db, article_id, fault) ==
    Finally(connect_pg(fault),
        LET rows == ArticleById(db, article_id) IN
        IF fault.at \in {"connect", "execute"}
        THEN Struck(Raises(fault.exc, db))
        ELSE IF rows = {}
        THEN Returns(<<>>, db)
        ELSE LET a == CHOOSE x \in rows : TRUE IN
             Returns(<<[article_id |-> a.article_id, title |-> a.title,
                        login |-> OwnerLogin(db, a),
                        article_body |-> a.article_body]>>, db)
    )

select_article_full(db, article_id, fault) ==
    Finally(connect_pg(fault),
        LET rows == ArticleById(db, article_id) IN
        IF fault.at \in {"connect", "execute"}
        THEN Struck(Raises(fault.exc, db))
        ELSE IF rows = {}
        THEN Returns(<<>>, db)
        ELSE LET a == CHOOSE x \in rows : TRUE IN
             Returns(<<[article_id |-> a.article_id, title |-> a.title,
                        login |-> OwnerLogin(db, a),
                        announcement |-> a.announcement,
                        article_body |-> a.article_body]>>, db)
    )

\* (SELECT id FROM users.users WHERE login = %s)
UserIdOf(db, login) == {u.id : u \in UserRows(db, login)}

\* articles.articles.user_id is NOT NULL: an article whose owner login
\* resolves to no user is refused by the store
NotNullViolation(db, login) == UserIdOf(db, login) = {}

insert_article(db, article, fault) ==
    Finally(connect_pg(fault),
        IF fault.at \in {"connect", "execute"}
        THEN Struck(Raises(fault.exc, db))
        ELSE IF NotNullViolation(db, article.user_name)
        THEN Raises("psycopg2.IntegrityError", db)    \* cur.execute refuses the row
        ELSE IF fault.at = "commit"
        THEN Struck(Raises(fault.exc, db))            \* conn.commit() is struck
        ELSE LET id == db.article_seq + 1 IN
             Returns(id,
                     [db EXCEPT
                        !.article_seq = id,
                        !.articles = @ \cup
                            {[article_id |-> id,
                              user_id |-> CHOOSE u \in UserIdOf(db, article.user_name) : TRUE,
                              title |-> article.title,
                              announcement |-> article.announcement,
                              article_body |-> article.article_body]}])
    )

update_article(db, article, fault) ==
    Finally(connect_pg(fault),
        IF fault.at \in {"connect", "execute", "commit"}
        THEN Struck(Raises(fault.exc, db))
        ELSE Returns("None",
                     [db EXCEPT !.articles =
                        {IF a.article_id = article.id
                         THEN [a EXCEPT !.title = article.title,
                                        !.article_body = article.article_body,
                                        !.announcement = article.announcement]
                         ELSE a : a \in @}])
    )

delete_article(db, article_id, fault) ==
    Finally(connect_pg(fault),
        IF fault.at \in {"connect", "execute", "commit"}
        THEN Struck(Raises(fault.exc, db))
        ELSE Returns("None",
                     [db EXCEPT !.articles = {a \in @ : a.article_id # article_id}])
    )

(***************************************************************************)
(* Search ranker: select_articles_by_search                                *)
(***************************************************************************)
\* coalesce(title, '') || ' ' || coalesce(announcement, '') || ' ' ||
\* coalesce(article_body, '')
ConcatText(a) == a.title \o a.announcement \o a.article_body

\* CTE fts: WHERE search_vector @@ q.tsq
InFts(a, q) == FtsMatch(a, q)
rank_fts(a, q) == ts_rank_cd(a, q)

\* CTE trgm: WHERE (title || ' ' || announcement || ' ' || body) % q.rawq
InTrgm(a, q) == SimilarTo(ConcatText(a), q)
rank_trgm(a, q) ==
    FMax(similarity(a.title, q),
         FMax(similarity(a.announcement, q), similarity(a.article_body, q)))

FtsWeight == Frac(10, 10)
TrgmWeight == Frac(5, 10)

\* coalesce(fts.rank_fts, 0) * 1.0 + coalesce(trgm.rank_trgm, 0) * 0.5,
\* with the two CTEs LEFT JOINed to the article
score(a, q) ==
    FAdd(FMul(IF InFts(a, q) THEN rank_fts(a, q) ELSE FZero, FtsWeight),
         FMul(IF InTrgm(a, q) THEN rank_trgm(a, q) ELSE FZero, TrgmWeight))

\* the search without the test of the score
SearchHits_any_score(db, q, login) == Joined(db, login)

\* WHERE [us.login = %s AND] (...) > 0
SearchHits(db, q, login) == {a \in Joined(db, login) : FLess(FZero, score(a, q))}

\* ORDER BY score DESC: every order of the hits with no score rising; the
\* query leaves the order of equal scores to the store
Ranked(hits, q) ==
    {r \in [1..Cardinality(hits) -> hits] :
        /\ \A i, j \in DOMAIN r : i # j => r[i] # r[j]
        /\ \A i, j \in DOMAIN r : i < j => ~FLess(score(r[i], q), score(r[j], q))}

SearchRow(db, a, q) ==
    [article_id |-> a.article_id, title |-> a.title,
     login |-> OwnerLogin(db, a), score |-> score(a, q)]

\* if amount is not None and chunk is not None: sql += OFFSET %s LIMIT %s
SearchPaging(amount, chunk) ==
    Paging(~IsNone(amount) /\ ~IsNone(chunk), amount, chunk)

\* the outcomes the call may have
select_articles_by_search(db, query_str, amount, chunk, login, fault) ==
    IF fault.at \in {"connect", "execute"}
    THEN {Finally(connect_pg(fault), Struck(Raises(fault.exc, db)))}
    ELSE {Finally(connect_pg(fault),
                  Fetched([i \in DOMAIN r |-> SearchRow(db, r[i], query_str)],
                          SearchPaging(amount, chunk), db))
          : r \in Ranked(SearchHits(db, query_str, login), query_str)}

(***************************************************************************)
(* Session issuer and verifier (app/utils), ownership check                *)
(* (app/database/utils) and the article image store                        *)
(* (app/database/articles/images).                                         *)
(***************************************************************************)
\* what a route hands back: the response, the stores and the tokens issued
Out(resp, db, iss) == [resp |-> resp, db |-> db, issued |-> iss]

\* calls: the store calls made, in order; returned and raised: the value the
\* last of them returned or the exception it raised; struck: a connection
\* failure struck it; opened and closed: the sessions it opened and closed;
\* body: the data of the response
Resp(status, calls, c, body) ==
    [status |-> status, calls |-> calls, returned |-> c.ret, raised |-> c.exc,
     struck |-> c.struck, body |-> body, opened |-> c.opened, closed |-> c.closed]

\* create_jwt(login): the token carries the login
create_jwt(iss, login) == iss \cup {login}

\* get_jwt_login(token)
get_jwt_login(authorization) == authorization

\* @verify_jwt: the handler runs only when the token verifies
verify_jwt(db, iss, authorization, handled) ==
    IF authorization = InvalidToken
    THEN Out(Resp(HTTP_401_UNAUTHORIZED, <<>>, Raises("InvalidTokenError", db), <<>>),
             db, iss)
    ELSE handled

\* check_article_owner(article_id, login): True for the owner, raises otherwise
check_article_owner(db, article_id, login, fault) ==
    IF fault.at \in {"connect", "execute"}
    THEN Struck(Raises(fault.exc, db))
    ELSE IF \E a \in ArticleById(db, article_id) : login \in OwnerLogins(db, a)
    THEN Returns("True", db)
    ELSE Raises("OwnershipError", db)

\* insert_images(ImagesAdd(article_id, images)): a fresh id per image,
\* appended to the article's id list
insert_images(db, article_id, image_ids, fault) ==
    IF fault.at = "connect"
    THEN Struck(Raises(fault.exc, db))
    ELSE Returns(image_ids,
                 [db EXCEPT !.article_images[article_id] = @ \o image_ids])

\* delete_images(article_id, image_ids): the ids of the list that were deleted
RECURSIVE Without(_, _)
Without(seq, ids) ==
    IF seq = <<>> THEN <<>>
    ELSE IF Head(seq) \in ids THEN Without(Tail(seq), ids)
    ELSE <<Head(seq)>> \o Without(Tail(seq), ids)

delete_images(db, article_id, image_ids, fault) ==
    IF fault.at = "connect"
    THEN Struck(Raises(fault.exc, db))
    ELSE Returns({db.article_images[article_id][i] :
                    i \in {j \in DOMAIN db.article_images[article_id] :
                            db.article_images[article_id][j] \in image_ids}},
                 [db EXCEPT !.article_images[article_id] = Without(@, image_ids)])

(***************************************************************************)
(* Routes: app/routers/authorization.py                                    *)
(***************************************************************************)
sign_in_route(db, iss, data, f1, f2) ==
    LET c1 == check_login(db, data.login, f1)
        c2 == check_credentials(db, data.login, data.password, f2)
    IN  IF c1.exc # "none"
        THEN Out(Resp(HTTP_500_INTERNAL_SERVER_ERROR, <<"check_login">>, c1, <<>>), db, iss)
        ELSE IF c1.ret = "False"
        THEN Out(Resp(HTTP_404_NOT_FOUND, <<"check_login">>, c1, <<>>), db, iss)
        ELSE IF c2.exc # "none"
        THEN Out(Resp(HTTP_500_INTERNAL_SERVER_ERROR, <<"check_login", "check_credentials">>,
                      c2, <<>>), db, iss)
        ELSE IF c2.ret = "False"
        THEN Out(Resp(HTTP_401_UNAUTHORIZED, <<"check_login", "check_credentials">>,
                      c2, <<>>), db, iss)
        ELSE Out(Resp(HTTP_200_OK, <<"check_login", "check_credentials">>, c2, <<>>),
                 db, create_jwt(iss, data.login))

\* the value process_user returns is not looked at
sign_up_route(db, iss, data, fault) ==
    LET c == process_user(db, [login |-> data.login, password |-> data.password,
                               description |-> ""], fault)
    IN  IF c.exc = "UniqueViolation"
        THEN Out(Resp(HTTP_409_CONFLICT, <<"process_user">>, c, <<>>), c.db, iss)
        ELSE IF c.exc # "none"
        THEN Out(Resp(HTTP_500_INTERNAL_SERVER_ERROR, <<"process_user">>, c, <<>>), c.db, iss)
        ELSE Out(Resp(HTTP_201_CREATED, <<"process_user">>, c, <<>>),
                 c.db, create_jwt(iss, data.login))

change_password_route(db, iss, data, authorization, fault) ==
    verify_jwt(db, iss, authorization,
        LET c == change_password(db, data.login, data.old_password,
                                 data.new_password, fault)
            status ==
                IF c.exc \in {"IncorrectLoginException", "OldPasswordMismatchException"}
                THEN HTTP_401_UNAUTHORIZED
                ELSE IF c.exc = "SamePasswordException"
                THEN HTTP_400_BAD_REQUEST
                ELSE IF c.exc # "none"
                THEN HTTP_500_INTERNAL_SERVER_ERROR   \* not caught by the route
                ELSE IF c.ret = "True"
                THEN HTTP_200_OK
                ELSE HTTP_500_INTERNAL_SERVER_ERROR
        IN  Out(Resp(status, <<"change_password">>, c, <<>>), c.db, iss))

(***************************************************************************)
(* Routes: app/routers/users.py                                            *)
(***************************************************************************)
get_author_route(db, iss, author_name, authorization, fault) ==
    verify_jwt(db, iss, authorization,
        LET c == select_user_info(db, author_name, fault)
        IN  IF c.exc # "none"
            THEN Out(Resp(HTTP_500_INTERNAL_SERVER_ERROR, <<"select_user_info">>, c, <<>>),
                     c.db, iss)
            ELSE Out(Resp(HTTP_200_OK, <<"select_user_info">>, c, c.ret), c.db, iss))

\* update_description_route without @verify_jwt
update_description_route_open(db, iss, data, authorization, fault) ==
    LET c == change_description(db, get_jwt_login(authorization),
                                data.description, fault)
    IN  IF c.exc # "none"
        THEN Out(Resp(HTTP_500_INTERNAL_SERVER_ERROR, <<"change_description">>, c, <<>>),
                 c.db, iss)
        ELSE Out(Resp(HTTP_200_OK, <<"change_description">>, c, <<>>), c.db, iss)

update_description_route(db, iss, data, authorization, fault) ==
    verify_jwt(db, iss, authorization,
        LET c == change_description(db, get_jwt_login(authorization),
                                    data.description, fault)
        IN  IF c.exc # "none"
            THEN Out(Resp(HTTP_500_INTERNAL_SERVER_ERROR, <<"change_description">>, c, <<>>),
                     c.db, iss)
            ELSE Out(Resp(HTTP_200_OK, <<"change_description">>, c, <<>>), c.db, iss))

(***************************************************************************)
(* Routes: app/routers/feed.py.  Every handler body is wrapped in          *)
(* try ... except Exception, answered with status 500.                     *)
(***************************************************************************)
\* a route that makes one store call: 500 when it raises, else status with
\* the value returned
OneCall(name, c, status, iss) ==
    IF c.exc # "none"
    THEN Out(Resp(HTTP_500_INTERNAL_SERVER_ERROR, <<name>>, c, <<>>), c.db, iss)
    ELSE Out(Resp(status, <<name>>, c, c.ret), c.db, iss)

\* a route that checks the owner, then makes one store call
OwnerGated(own, name, c, status, iss) ==
    IF own.exc # "none"
    THEN Out(Resp(HTTP_500_INTERNAL_SERVER_ERROR, <<"check_article_owner">>, own, <<>>),
             own.db, iss)
    ELSE IF c.exc # "none"
    THEN Out(Resp(HTTP_500_INTERNAL_SERVER_ERROR, <<"check_article_owner", name>>, c, <<>>),
             c.db, iss)
    ELSE Out(Resp(status, <<"check_article_owner", name>>, c, c.ret), c.db, iss)

get_articles_route(db, iss, amount, chunk, login, authorization, fault) ==
    verify_jwt(db, iss, authorization,
        OneCall("select_articles_announcement",
                select_articles_announcement(db, amount, chunk, login, fault),
                HTTP_200_OK, iss))

get_article_route(db, iss, article_id, authorization, fault) ==
    verify_jwt(db, iss, authorization,
        OneCall("select_article", select_article(db, article_id, fault),
                HTTP_200_OK, iss))

get_article_full_route(db, iss, article_id, authorization, fault) ==
    verify_jwt(db, iss, authorization,
        OneCall("select_article_full", select_article_full(db, article_id, fault),
                HTTP_200_OK, iss))

remove_article_images_route(db, iss, article_id, image_ids, authorization, f1, f2) ==
    verify_jwt(db, iss, authorization,
        OwnerGated(check_article_owner(db, article_id, get_jwt_login(authorization), f1),
                   "delete_images", delete_images(db, article_id, image_ids, f2),
                   HTTP_200_OK, iss))

add_article_images_route(db, iss, article_id, images, authorization, f1, f2) ==
    verify_jwt(db, iss, authorization,
        OwnerGated(check_article_owner(db, article_id, get_jwt_login(authorization), f1),
                   "insert_images", insert_images(db, article_id, images, f2),
                   HTTP_201_CREATED, iss))

add_article_route(db, iss, article_data, authorization, fault) ==
    verify_jwt(db, iss, authorization,
        OneCall("insert_article",
                insert_article(db, [id |-> 0,
                                    title |-> article_data.title,
                                    user_name |-> get_jwt_login(authorization),
                                    announcement |-> article_data.announcement,
                                    article_body |-> article_data.article_body], fault),
                HTTP_200_OK, iss))

\* update_article_route updating without asking who owns the article
update_article_route_unchecked(db, iss, article_data, authorization, f1, f2) ==
    verify_jwt(db, iss, authorization,
        OneCall("update_article", update_article(db, article_data, f2),
                HTTP_200_OK, iss))

update_article_route(db, iss, article_data, authorization, f1, f2) ==
    verify_jwt(db, iss, authorization,
        OwnerGated(check_article_owner(db, article_data.id,
                                       get_jwt_login(authorization), f1),
                   "update_article", update_article(db, article_data, f2),
                   HTTP_200_OK, iss))

remove_article_route(db, iss, article_id, authorization, f1, f2) ==
    verify_jwt(db, iss, authorization,
        OwnerGated(check_article_owner(db, article_id, get_jwt_login(authorization), f1),
                   "delete_article", delete_article(db, article_id, f2),
                   HTTP_200_OK, iss))

\* the responses the search route may give
search_articles_route(db, iss, query, amount, chunk, login, authorization, fault) ==
    {verify_jwt(db, iss, authorization,
                OneCall("select_articles_by_search", c, HTTP_200_OK, iss))
     : c \in select_articles_by_search(db, query, amount, chunk, login, fault)}

(***************************************************************************)
(* Request inputs.                                                         *)
(***************************************************************************)
ArticleIds == 1..MaxArticles
ImageIds == {"img1", "img2"}
Amounts == {0, 1, 2}
Chunks == {1, 2}
LoginFilters == {None, Some("alice"), Some("")}
Queries == {<<cab>>, <<cat>>, <<owl>>, <<>>}

\* title, announcement and body of the articles written
ArticleContents ==
    {[title |-> <<cat>>, announcement |-> <<>>, article_body |-> <<>>],
     [title |-> <<cat>>, announcement |-> <<dog>>, article_body |-> <<pig, hen>>]}

\* the batches of freshly generated image ids (uuid4): ids no list holds
FreshBatches(db) ==
    LET used == UNION {{db.article_images[a][i] : i \in DOMAIN db.article_images[a]}
                        : a \in DOMAIN db.article_images}
        free == ImageIds \ used
    IN  {<<x>> : x \in free}
        \cup {p \in free \X free : p[1] # p[2]}

(***************************************************************************)
(* User image store: app/database/users/images.py.  Redis holds the bytes  *)
(* of an image under the key user:{user_id}:image:{image_id} and the ids   *)
(* of a user's images in the list user:{user_id}:images.  Each Redis       *)
(* command is one step; the calls of several callers interleave between    *)
(* the commands.                                                           *)
(***************************************************************************)
MaxCallers == 2
MaxBatch == 2
MaxImages == 3

Callers == 1..MaxCallers
UserIds == {1, 2}

\* base64 payloads: "YQ==" of the bytes "a", "Yg==" of the bytes "b", and
\* "YQ" with its padding missing; the payloads of the images inserted, and
\* of the images put in their place
InsertedImages == {"YQ==", "YQ"}
ReplacingImages == {"Yg==", "YQ"}

\* base64.b64decode(b64)
b64decode(b64) ==
    CASE b64 = "YQ==" -> [bytes |-> "a", exc |-> "none"]
      [] b64 = "Yg==" -> [bytes |-> "b", exc |-> "none"]
      [] b64 = "YQ" -> [bytes |-> "", exc |-> "binascii.Error"]

\* str(uuid.uuid4()): an id never generated before
uuid4(seq) == seq + 1

USER_IMAGES_LIST(user_id) == user_id
USER_IMAGE_KEY(user_id, image_id) == <<user_id, image_id>>

\* client.set(key, value)
client_set(strings, key, value) ==
    [k \in DOMAIN strings \cup {key} |-> IF k = key THEN value ELSE strings[k]]

\* client.get(key): the value as a sequence of one element, None as <<>>
client_get(strings, key) ==
    IF key \in DOMAIN strings THEN <<strings[key]>> ELSE <<>>

\* client.exists(key)
client_exists(strings, key) == key \in DOMAIN strings

\* client.rpush(list_key, value) appending the value twice
client_rpush_twice(lists, list_key, value) ==
    [lists EXCEPT ![list_key] = Append(Append(@, value), value)]

\* client.rpush(list_key, value)
client_rpush(lists, list_key, value) ==
    [lists EXCEPT ![list_key] = Append(@, value)]

\* client.lrange(list_key, 0, stop) for stop 0 and stop -1
client_lrange(lists, list_key, stop) ==
    IF stop = -1 THEN lists[list_key]
    ELSE SubSeq(lists[list_key], 1,
                IF stop + 1 < Len(lists[list_key]) THEN stop + 1
                ELSE Len(lists[list_key]))

\* a caller: the function it runs, where it stands, its arguments and
\* locals, and what it returned or raised
NoCall ==
    [op |-> "none", pc |-> "idle", user_id |-> 0, images |-> <<>>,
     image_id |-> 0, b64_image |-> "", first_only |-> FALSE,
     image_ids |-> <<>>, ret |-> "None", exc |-> "none"]

\* the store and one caller, before and after a step of that caller
Store(strings, lists, seq, c) ==
    [strings |-> strings, lists |-> lists, uuid_seq |-> seq, c |-> c]

\* the call is over: its locals are gone, what is kept of it is the function,
\* the key it was called for and what it returned or raised
Over(c) ==
    [NoCall EXCEPT !.op = c.op, !.pc = "done", !.user_id = c.user_id,
                   !.image_id = IF c.op = "insert_user_images" THEN 0 ELSE c.image_id]
Return(st, value) == [st EXCEPT !.c = [Over(st.c) EXCEPT !.ret = value]]
Raise(st, e) == [st EXCEPT !.c = [Over(st.c) EXCEPT !.exc = e]]

\* insert_user_images writing the id to the list before the bytes
insert_user_images_list_first(st) ==
    LET c == st.c IN
    IF c.pc = "loop"
    THEN IF c.images = <<>>
         THEN Return(st, c.image_ids)
         ELSE LET img == b64decode(Head(c.images))
                  image_id == uuid4(st.uuid_seq)
              IN  IF img.exc # "none"
                  THEN Raise(st, img.exc)
                  ELSE [st EXCEPT
                          !.uuid_seq = image_id,
                          !.lists = client_rpush(@, USER_IMAGES_LIST(c.user_id), image_id),
                          !.c.image_id = image_id,
                          !.c.pc = "rpush"]
    ELSE LET after ==
                 [st EXCEPT
                    !.strings = client_set(@, USER_IMAGE_KEY(c.user_id, c.image_id),
                                           b64decode(Head(c.images)).bytes),
                    !.c.image_ids = Append(@, c.image_id),
                    !.c.images = Tail(@),
                    !.c.pc = "loop"]
         IN  IF after.c.images = <<>> THEN Return(after, after.c.image_ids) ELSE after

\* one step of insert_user_images: at "loop" the loop takes the next image,
\* decodes it, generates its id and sets its key (an empty batch returns at
\* once); at "rpush" it appends the id to the user's list and, no image
\* being left, returns the ids
insert_user_images(st) ==
    LET c == st.c IN
    IF c.pc = "loop"
    THEN IF c.images = <<>>
         THEN Return(st, c.image_ids)
         ELSE LET img == b64decode(Head(c.images))
                  image_id == uuid4(st.uuid_seq)
              IN  IF img.exc # "none"
                  THEN Raise(st, img.exc)
                  ELSE [st EXCEPT
                          !.uuid_seq = image_id,
                          !.strings = client_set(@, USER_IMAGE_KEY(c.user_id, image_id),
                                                 img.bytes),
                          !.c.image_id = image_id,
                          !.c.pc = "rpush"]
    ELSE LET after ==
                 [st EXCEPT
                    !.lists = client_rpush(@, USER_IMAGES_LIST(c.user_id), c.image_id),
                    !.c.image_ids = Append(@, c.image_id),
                    !.c.images = Tail(@),
                    !.c.pc = "loop"]
         IN  IF after.c.images = <<>> THEN Return(after, after.c.image_ids) ELSE after

select_user_images(st) ==
    Return(st, client_lrange(st.lists, USER_IMAGES_LIST(st.c.user_id),
                             IF st.c.first_only THEN 0 ELSE -1))

get_user_image_bytes(st) ==
    Return(st, client_get(st.strings, USER_IMAGE_KEY(st.c.user_id, st.c.image_id)))

\* update_user_image setting the key without asking whether it exists
update_user_image_upsert(st) ==
    LET c == st.c
        key == USER_IMAGE_KEY(c.user_id, c.image_id)
    IN  IF c.pc = "exists"
        THEN [st EXCEPT !.c.pc = "set"]
        ELSE LET img == b64decode(c.b64_image) IN
             IF img.exc # "none"
             THEN Raise(st, img.exc)
             ELSE Return([st EXCEPT !.strings = client_set(@, key, img.bytes)], "True")

\* one step of update_user_image: at "exists" it asks for the key and
\* returns False without it; at "set" it decodes the image and sets the key
update_user_image(st) ==
    LET c == st.c
        key == USER_IMAGE_KEY(c.user_id, c.image_id)
    IN  IF c.pc = "exists"
        THEN IF ~client_exists(st.strings, key)
             THEN Return(st, "False")
             ELSE [st EXCEPT !.c.pc = "set"]
        ELSE LET img == b64decode(c.b64_image) IN
             IF img.exc # "none"
             THEN Raise(st, img.exc)
             ELSE Return([st EXCEPT !.strings = client_set(@, key, img.bytes)], "True")

\* the batches of images a caller may pass
Batches == UNION {[1..n -> InsertedImages] : n \in 0..MaxBatch}

\* the number of images the callers 1..n have yet to store
RECURSIVE Pending(_, _)
Pending(cs, n) ==
    IF n = 0 THEN 0
    ELSE Len(cs[n].images) - (IF cs[n].pc = "rpush" THEN 1 ELSE 0) + Pending(cs, n - 1)

(***************************************************************************)
(* The state machine: one action per route.                                *)
(***************************************************************************)
Db == [users |-> users, articles |-> articles, article_seq |-> article_seq,
       article_images |-> article_images]

\* no request is being answered
Idle == [route |-> "none", token |-> "none", req |-> <<>>,
         status |-> 0, calls |-> <<>>, returned |-> "None", raised |-> "none",
         struck |-> FALSE, body |-> <<>>, opened |-> 0, closed |-> 0]

\* the users table after alice and bob signed up with password pw1
Registered ==
    {[id |-> 1, login |-> "alice", password |-> sha256_hexdigest("pw1"), description |-> ""],
     [id |-> 2, login |-> "bob", password |-> sha256_hexdigest("pw1"), description |-> ""]}

\* the server starts on an empty database, or on the database two
\* sign-ups left, the two users holding their tokens
\* Redis holds no key and no caller is at work
ImageInit ==
    /\ redis_strings = <<>>
    /\ redis_lists = [u \in UserIds |-> <<>>]
    /\ uuid_seq = 0
    /\ callers = [p \in Callers |-> NoCall]

Init ==
    /\ \/ users = {} /\ issued = {}
       \/ users = Registered /\ issued = Logins
    /\ articles = {}
    /\ article_seq = 0
    /\ article_images = [a \in ArticleIds |-> <<>>]
    /\ served = 0
    /\ last = Idle
    /\ ImageInit

\* the request is served: the stores and the tokens are as the route leaves
\* them, and the request and its response are recorded
\* a request is taken up when none is being answered
Ready == last = Idle /\ served < MaxRequests

Serve(route, authorization, req, out) ==
    /\ served' = served + 1
    /\ users' = out.db.users
    /\ articles' = out.db.articles
    /\ article_seq' = out.db.article_seq
    /\ article_images' = out.db.article_images
    /\ issued' = out.issued
    /\ last' = [route |-> route, token |-> authorization, req |-> req,
                status |-> out.resp.status, calls |-> out.resp.calls,
                returned |-> out.resp.returned,
                raised |-> out.resp.raised, struck |-> out.resp.struck,
                body |-> out.resp.body,
                opened |-> out.resp.opened, closed |-> out.resp.closed]
    /\ UNCHANGED image_vars

SignIn ==
    /\ Ready
    /\ \E login \in Logins, password \in Passwords, f1, f2 \in ReadFaults :
           LET data == [login |-> login, password |-> password] IN
           Serve("sign_in", "none", data, sign_in_route(Db, issued, data, f1, f2))

SignUp ==
    /\ Ready
    /\ \E login \in Logins, password \in Passwords, f \in Faults :
           LET data == [login |-> login, password |-> password] IN
           Serve("sign_up", "none", data, sign_up_route(Db, issued, data, f))

ChangePassword ==
    /\ Ready
    /\ \E login \in Logins, old \in Passwords, new \in Passwords,
          t \in Tokens, f \in Faults :
           LET data == [login |-> login, old_password |-> old, new_password |-> new] IN
           Serve("change_password", t, data, change_password_route(Db, issued, data, t, f))

GetAuthor ==
    /\ Ready
    /\ \E name \in Logins, t \in Tokens, f \in ReadFaults :
           Serve("author", t, [author_name |-> name],
                 get_author_route(Db, issued, name, t, f))

UpdateDescription ==
    /\ Ready
    /\ \E d \in Descriptions, t \in Tokens, f \in WriteFaults :
           LET data == [description |-> d] IN
           Serve("update_description", t, data,
                 update_description_route(Db, issued, data, t, f))

GetArticles ==
    /\ Ready
    /\ \E amount \in Amounts, chunk \in Chunks, login \in LoginFilters,
          t \in Tokens, f \in ReadFaults :
           Serve("articles", t, [amount |-> amount, chunk |-> chunk, login |-> login],
                 get_articles_route(Db, issued, Some(amount), Some(chunk), login, t, f))

GetArticle ==
    /\ Ready
    /\ \E id \in ArticleIds, t \in Tokens, f \in ReadFaults :
           Serve("article", t, [article_id |-> id],
                 get_article_route(Db, issued, id, t, f))

GetArticleFull ==
    /\ Ready
    /\ \E id \in ArticleIds, t \in Tokens, f \in ReadFaults :
           Serve("article_full", t, [article_id |-> id],
                 get_article_full_route(Db, issued, id, t, f))

RemoveArticleImages ==
    /\ Ready
    /\ \E id \in ArticleIds, ids \in SUBSET ImageIds, t \in Tokens,
          f1 \in ReadFaults, f2 \in RedisFaults :
           Serve("remove_images", t, [article_id |-> id, image_ids |-> ids],
                 remove_article_images_route(Db, issued, id, ids, t, f1, f2))

AddArticleImages ==
    /\ Ready
    /\ \E id \in ArticleIds, ids \in FreshBatches(Db), t \in Tokens,
          f1 \in ReadFaults, f2 \in RedisFaults :
           Serve("add_images", t, [article_id |-> id, images |-> ids],
                 add_article_images_route(Db, issued, id, ids, t, f1, f2))

AddArticle ==
    /\ Ready
    /\ \E c \in ArticleContents, t \in Tokens, f \in WriteFaults :
           /\ article_seq < MaxArticles
           /\ Serve("add_article", t, c, add_article_route(Db, issued, c, t, f))

UpdateArticle ==
    /\ Ready
    /\ \E id \in ArticleIds, c \in ArticleContents, t \in Tokens,
          f1 \in ReadFaults, f2 \in WriteFaults :
           LET data == [id |-> id, title |-> c.title, announcement |-> c.announcement,
                        article_body |-> c.article_body] IN
           Serve("update_article", t, data,
                 update_article_route(Db, issued, data, t, f1, f2))

RemoveArticle ==
    /\ Ready
    /\ \E id \in ArticleIds, t \in Tokens, f1 \in ReadFaults, f2 \in WriteFaults :
           Serve("remove_article", t, [article_id |-> id],
                 remove_article_route(Db, issued, id, t, f1, f2))

SearchArticles ==
    /\ Ready
    /\ \E q \in Queries, amount \in Amounts, chunk \in Chunks, login \in LoginFilters,
          t \in Tokens, f \in ReadFaults :
           \E out \in search_articles_route(Db, issued, q, Some(amount), Some(chunk),
                                            login, t, f) :
               Serve("search_articles", t,
                     [query |-> q, amount |-> amount, chunk |-> chunk, login |-> login],
                     out)

\* the response is sent; the server keeps nothing of the request
Respond ==
    /\ last # Idle
    /\ last' = Idle
    /\ UNCHANGED <<users, articles, article_seq, article_images, issued, served>>
    /\ UNCHANGED image_vars

Next ==
    \/ SignIn
    \/ SignUp
    \/ ChangePassword
    \/ GetAuthor
    \/ UpdateDescription
    \/ GetArticles
    \/ GetArticle
    \/ GetArticleFull
    \/ RemoveArticleImages
    \/ AddArticleImages
    \/ AddArticle
    \/ UpdateArticle
    \/ RemoveArticle
    \/ SearchArticles
    \/ Respond

Spec == Init /\ [][Next]_vars

(***************************************************************************)
(* The user image store under concurrent callers: each caller makes one    *)
(* call of app/database/users/images.py, and the calls advance one Redis   *)
(* command at a time, in any interleaving.                                 *)
(***************************************************************************)
\* caller p takes the step its function defines
Step(p, st) ==
    /\ redis_strings' = st.strings
    /\ redis_lists' = st.lists
    /\ uuid_seq' = st.uuid_seq
    /\ callers' = [callers EXCEPT ![p] = st.c]
    /\ UNCHANGED api_vars

Running(p, op) == callers[p].op = op /\ callers[p].pc \notin {"idle", "done"}

\* insert_user_images(UserImagesAdd(user_id, images)) is called
CallInsertUserImages(p) ==
    /\ callers[p].op = "none"
    /\ \E user_id \in UserIds, images \in Batches :
           /\ uuid_seq + Pending(callers, MaxCallers) + Len(images) <= MaxImages
           /\ callers' = [callers EXCEPT ![p] =
                          [NoCall EXCEPT !.op = "insert_user_images", !.pc = "loop",
                                         !.user_id = user_id, !.images = images]]
    /\ UNCHANGED <<redis_strings, redis_lists, uuid_seq>>
    /\ UNCHANGED api_vars

StepInsertUserImages(p) ==
    /\ Running(p, "insert_user_images")
    /\ Step(p, insert_user_images(Store(redis_strings, redis_lists, uuid_seq, callers[p])))

\* update_user_image(user_id, image_id, b64_image) is called
CallUpdateUserImage(p) ==
    /\ callers[p].op = "none"
    /\ \E user_id \in UserIds, image_id \in 1..(uuid_seq + 1), b64 \in ReplacingImages :
           callers' = [callers EXCEPT ![p] =
                          [NoCall EXCEPT !.op = "update_user_image", !.pc = "exists",
                                         !.user_id = user_id, !.image_id = image_id,
                                         !.b64_image = b64]]
    /\ UNCHANGED <<redis_strings, redis_lists, uuid_seq>>
    /\ UNCHANGED api_vars

StepUpdateUserImage(p) ==
    /\ Running(p, "update_user_image")
    /\ Step(p, update_user_image(Store(redis_strings, redis_lists, uuid_seq, callers[p])))

\* select_user_images(user_id, first_only): one command
SelectUserImages(p) ==
    /\ callers[p].op = "none"
    /\ \E user_id \in UserIds, first_only \in BOOLEAN :
           Step(p, select_user_images(Store(redis_strings, redis_lists, uuid_seq,
                    [NoCall EXCEPT !.op = "select_user_images",
                                   !.user_id = user_id, !.first_only = first_only])))

\* get_user_image_bytes(user_id, image_id): one command
GetUserImageBytes(p) ==
    /\ callers[p].op = "none"
    /\ \E user_id \in UserIds, image_id \in 1..(uuid_seq + 1) :
           Step(p, get_user_image_bytes(Store(redis_strings, redis_lists, uuid_seq,
                    [NoCall EXCEPT !.op = "get_user_image_bytes",
                                   !.user_id = user_id, !.image_id = image_id])))

\* the connection to Redis fails under a call: its next command raises
RedisFails(p) ==
    /\ callers[p].pc \notin {"idle", "done"}
    /\ callers' = [callers EXCEPT ![p] =
                       [Over(callers[p]) EXCEPT !.exc = "redis.ConnectionError"]]
    /\ UNCHANGED <<redis_strings, redis_lists, uuid_seq>>
    /\ UNCHANGED api_vars

ImageNext ==
    \/ \E p \in Callers : CallInsertUserImages(p)
    \/ \E p \in Callers : StepInsertUserImages(p)
    \/ \E p \in Callers : CallUpdateUserImage(p)
    \/ \E p \in Callers : StepUpdateUserImage(p)
    \/ \E p \in Callers : SelectUserImages(p)
    \/ \E p \in Callers : GetUserImageBytes(p)
    \/ \E p \in Callers : RedisFails(p)

\* the relational side stays empty
ImageSpecInit == Init /\ users = {}

ImageSpec == ImageSpecInit /\ [][ImageNext]_vars

(***************************************************************************)
(* Properties.                                                             *)
(***************************************************************************)
ProtectedRoutes ==
    {"change_password", "author", "update_description", "articles", "article",
     "article_full", "remove_images", "add_images", "add_article",
     "update_article", "remove_article", "search_articles"}

\* C1: on every protected route a request whose token fails verification is
\* answered 401 with no store call made and every store left as it was.
C1_TokenGate ==
    [][(last'.route \in ProtectedRoutes /\ last'.token = InvalidToken)
        => /\ last'.calls = <<>>
           /\ last'.status = HTTP_401_UNAUTHORIZED
           /\ UNCHANGED stores]_vars

\* a request with a bad token met a store holding a user with a changed
\* description and an article
C1_Witness ==
    /\ last.route \in {"update_description", "remove_article", "update_article"}
    /\ last.token = InvalidToken
    /\ users # {}
    /\ articles # {}

\* C2: right after process_user returned True for (login, password),
\* check_credentials is true for that password and false for every other.
C2_CreateThenCheck ==
    (last.route = "sign_up" /\ last.returned = "True")
        => \A p \in Passwords :
              check_credentials(Db, last.req.login, p, NoFault).ret
                  = IF p = last.req.password THEN "True" ELSE "False"

C2_Witness ==
    /\ last.route = "sign_up"
    /\ last.returned = "True"
    /\ \E r \in users : r.login = last.req.login

\* C3 as stated: change_password called with new_password = old_password
\* raises SamePasswordException whatever the table holds.
C3_SamePasswordAlways ==
    (/\ last.route = "change_password"
     /\ last.calls = <<"change_password">>
     /\ ~last.struck
     /\ last.req.old_password = last.req.new_password)
        => last.raised = "SamePasswordException"

\* C3 amended: change_password called with new_password = old_password never
\* returns True and changes no row; when the connection holds it raises
\* IncorrectLoginException for an unknown login, OldPasswordMismatchException
\* when the old password does not match the stored digest, and
\* SamePasswordException otherwise.
C3_SamePasswordRefused ==
    [][(/\ last'.route = "change_password"
        /\ last'.calls = <<"change_password">>
        /\ last'.req.old_password = last'.req.new_password)
        => /\ last'.returned # "True"
           /\ users' = users
           /\ ~last'.struck =>
                last'.raised =
                    IF \A r \in users : r.login # last'.req.login
                    THEN "IncorrectLoginException"
                    ELSE IF \E r \in users :
                               /\ r.login = last'.req.login
                               /\ r.password # sha256_hexdigest(last'.req.old_password)
                    THEN "OldPasswordMismatchException"
                    ELSE "SamePasswordException"]_vars

C3_Witness ==
    /\ last.route = "change_password"
    /\ last.req.old_password = last.req.new_password
    /\ last.raised = "SamePasswordException"
    /\ last.status = HTTP_400_BAD_REQUEST

\* C4: change_password called with an old password whose digest differs from
\* the stored one changes no row of users.users and, the connection holding,
\* raises OldPasswordMismatchException, answered 401.
C4_WrongOldPassword ==
    [][(/\ last'.route = "change_password"
        /\ last'.calls = <<"change_password">>
        /\ \E r \in users :
              /\ r.login = last'.req.login
              /\ r.password # sha256_hexdigest(last'.req.old_password))
        => /\ users' = users
           /\ last'.returned # "True"
           /\ ~last'.struck =>
                /\ last'.raised = "OldPasswordMismatchException"
                /\ last'.status = HTTP_401_UNAUTHORIZED]_vars

C4_Witness ==
    /\ last.route = "change_password"
    /\ last.raised = "OldPasswordMismatchException"
    /\ last.req.old_password # last.req.new_password
    /\ \E r \in users : r.login = last.req.login

\* C5: a sign-up for a login the table holds leaves every row as it was and,
\* the connection holding, is refused with UniqueViolation, answered 409; the
\* table never holds two rows with one login.
C5_DuplicateLogin ==
    [][/\ (last'.route = "sign_up" /\ \E r \in users : r.login = last'.req.login)
            => /\ users' = users
               /\ ~last'.struck =>
                    /\ last'.raised = "UniqueViolation"
                    /\ last'.status = HTTP_409_CONFLICT
       /\ \A r1, r2 \in users' : r1.login = r2.login => r1 = r2]_vars

\* the second sign-up met a row whose description had been changed
C5_Witness ==
    /\ last.route = "sign_up"
    /\ last.status = HTTP_409_CONFLICT
    /\ \E r \in users : r.login = last.req.login /\ r.description = "bio"

\* C6 as stated: a sign-up answered 201 has committed the user's row.
C6_SignUpCommitted ==
    (last.route = "sign_up" /\ last.status = HTTP_201_CREATED)
        => /\ last.returned = "True"
           /\ \E r \in users :
                 /\ r.login = last.req.login
                 /\ r.password = sha256_hexdigest(last.req.password)

OwnerRoutes == {"update_article", "remove_article", "add_images", "remove_images"}
ReqArticleId(l) == IF l.route = "update_article" THEN l.req.id ELSE l.req.article_id

\* C7: on the update, delete and image routes the owner check is the first
\* store call, and a caller who does not own the article gets OwnershipError
\* from it: no further call is made, no store changes, the answer is 500.
C7_OwnerGate ==
    [][(last'.route \in OwnerRoutes /\ last'.token # InvalidToken)
        => /\ Head(last'.calls) = "check_article_owner"
           /\ (~\E a \in articles :
                    /\ a.article_id = ReqArticleId(last')
                    /\ last'.token \in OwnerLogins(Db, a))
                => /\ UNCHANGED stores
                   /\ last'.calls = <<"check_article_owner">>
                   /\ last'.status = HTTP_500_INTERNAL_SERVER_ERROR
                   /\ ~last'.struck => last'.raised = "OwnershipError"]_vars

\* an update of an article that exists, asked for by another user
C7_Witness ==
    /\ last.route = "update_article"
    /\ last.raised = "OwnershipError"
    /\ \E a \in articles :
          /\ a.article_id = last.req.id
          /\ a.announcement # last.req.announcement

\* C8 as stated: a request one of whose store calls was struck by a
\* connection failure is answered 500.
C8_FailureSurfaced ==
    last.struck => last.status = HTTP_500_INTERNAL_SERVER_ERROR

\* C9 as stated: a change_password, update or delete request in which a
\* password rule was violated, or the ownership of an existing article, is
\* answered neither 500 nor with success.
C9_PolicyStatus ==
    (/\ last.route \in {"change_password", "update_article", "remove_article"}
     /\ last.raised \in {"OldPasswordMismatchException", "SamePasswordException",
                         "OwnershipError"}
     /\ last.raised = "OwnershipError"
            => \E a \in articles : a.article_id = ReqArticleId(last))
        => last.status \notin {HTTP_500_INTERNAL_SERVER_ERROR, HTTP_200_OK,
                               HTTP_201_CREATED}

\* the page asked for holds every hit
CoversAll(l) ==
    /\ (l.req.chunk - 1) * l.req.amount = 0
    /\ l.req.amount >= Cardinality(articles)

FieldSimilarities(a, q) ==
    {similarity(a.title, q), similarity(a.announcement, q),
     similarity(a.article_body, q)}
BestSimilarity(a, q) ==
    CHOOSE m \in FieldSimilarities(a, q) :
        \A o \in FieldSimilarities(a, q) : ~FLess(m, o)
Half(x) == Frac(x.num, 2 * x.den)

Listed(l, a) == \E i \in DOMAIN l.body : l.body[i].article_id = a.article_id
ListedWith(l, a, sc) ==
    \E i \in DOMAIN l.body :
        l.body[i].article_id = a.article_id /\ FEq(l.body[i].score, sc)

\* C10 as stated: an article with no lexical match one of whose fields is
\* trigram-similar to the query is returned, with score 0.5 * the greatest of
\* the three similarities.
C10_FuzzyFieldMatch ==
    (last.route = "search_articles" /\ last.status = HTTP_200_OK /\ CoversAll(last))
        => \A a \in Joined(Db, last.req.login) :
              (/\ ~FtsMatch(a, last.req.query)
               /\ \/ SimilarTo(a.title, last.req.query)
                  \/ SimilarTo(a.announcement, last.req.query)
                  \/ SimilarTo(a.article_body, last.req.query))
                => ListedWith(last, a, Half(BestSimilarity(a, last.req.query)))

\* C10, what the query does: the trigram signal counts only when the text
\* title || ' ' || announcement || ' ' || body as a whole is similar to the
\* query.  Then an article with no lexical match is returned with score
\* 0.5 * the greatest of the three field similarities, an article with a
\* lexical match only is returned with its lexical rank, and an article with
\* neither is not returned, whatever its single fields are like.
C10_FuzzyOnly ==
    (last.route = "search_articles" /\ last.status = HTTP_200_OK /\ CoversAll(last))
        => \A a \in Joined(Db, last.req.login) :
              LET q == last.req.query
                  lexical == FtsMatch(a, q)
                  fuzzy == SimilarTo(ConcatText(a), q)
              IN  /\ (fuzzy /\ ~lexical) => ListedWith(last, a, Half(BestSimilarity(a, q)))
                  /\ (lexical /\ ~fuzzy) => ListedWith(last, a, ts_rank_cd(a, q))
                  /\ (~lexical /\ ~fuzzy) => ~Listed(last, a)

\* a search returned an article that matches by trigrams alone
C10_Witness ==
    /\ last.route = "search_articles"
    /\ last.status = HTTP_200_OK
    /\ \E a \in articles :
          /\ ~FtsMatch(a, last.req.query)
          /\ SimilarTo(ConcatText(a), last.req.query)
          /\ ListedWith(last, a, Frac(1, 6))

\* the lexical and the fuzzy relevance of an article to a query as the
\* design states them: the rank of a lexical match, the greatest of the
\* three field similarities
LexicalRelevance(a, q) == IF FtsMatch(a, q) THEN ts_rank_cd(a, q) ELSE FZero
FuzzyRelevance(a, q) == BestSimilarity(a, q)
CombinedScore(a, q) ==
    FAdd(FMul(LexicalRelevance(a, q), Frac(1, 1)), FMul(FuzzyRelevance(a, q), Frac(1, 2)))

\* C11: every article a search returns passes the author filter asked for,
\* is listed with a score greater than 0 and has a combined score
\* 1.0 * lexical + 0.5 * fuzzy greater than 0; when every article has zero lexical and zero
\* fuzzy relevance to the query the result is empty.
C11_PositiveScoreOnly ==
    (last.route = "search_articles" /\ last.status = HTTP_200_OK)
        => LET q == last.req.query IN
           /\ \A i \in DOMAIN last.body :
                 \E a \in articles :
                    /\ a.article_id = last.body[i].article_id
                    /\ TruthyStr(last.req.login)
                          => last.req.login[1] \in OwnerLogins(Db, a)
                    /\ FLess(FZero, last.body[i].score)
                    /\ FLess(FZero, CombinedScore(a, q))
           /\ (\A a \in articles :
                    /\ FEq(LexicalRelevance(a, q), FZero)
                    /\ FEq(FuzzyRelevance(a, q), FZero))
                => last.body = <<>>

\* a search for a word no article has anything of returned nothing, two
\* articles being stored
C11_Witness ==
    /\ last.route = "search_articles"
    /\ last.status = HTTP_200_OK
    /\ last.req.query = <<owl>>
    /\ Cardinality(articles) = 2
    /\ last.body = <<>>

\* the announcements of the articles of the author asked for, newest first
AnnouncementsWanted(l) ==
    LET rows == ByIdDesc(Joined(Db, l.req.login))
    IN  [i \in 1..Len(rows) |->
            [article_id |-> rows[i].article_id, title |-> rows[i].title,
             login |-> OwnerLogin(Db, rows[i]), announcement |-> rows[i].announcement]]

\* the slice of a sequence at offset (page - 1) * amount with limit amount
SliceWanted(rows, amount, page) ==
    LET offset == (page - 1) * amount
        upto == IF offset + amount < Len(rows) THEN offset + amount ELSE Len(rows)
    IN  [i \in 1..(IF upto > offset THEN upto - offset ELSE 0) |-> rows[offset + i]]

Descending(body) ==
    \A i, j \in DOMAIN body : i < j => body[i].article_id > body[j].article_id

\* C12 as stated: a list request with amount and page is answered with the
\* articles of the author asked for in descending id order, cut to the slice
\* at offset (page - 1) * amount of length amount, whatever amount and page
\* are.
C12_PagedSlice ==
    (last.route = "articles" /\ last.status = HTTP_200_OK)
        => /\ Descending(last.body)
           /\ last.body = SliceWanted(AnnouncementsWanted(last),
                                      last.req.amount, last.req.chunk)

\* C12 for the values Python takes as true: with amount # 0 and page # 0 the
\* answer is that slice.
C12_PagedSliceWhenTruthy ==
    (/\ last.route = "articles"
     /\ last.status = HTTP_200_OK
     /\ last.req.amount # 0
     /\ last.req.chunk # 0)
        => /\ Descending(last.body)
           /\ last.body = SliceWanted(AnnouncementsWanted(last),
                                      last.req.amount, last.req.chunk)

\* the second page of one: the older of two articles
C12_Witness ==
    /\ last.route = "articles"
    /\ last.status = HTTP_200_OK
    /\ last.req.amount = 1
    /\ last.req.chunk = 2
    /\ Len(last.body) = 1
    /\ last.body[1].article_id = 1
    /\ Cardinality(articles) = 2

ScoreDescending(body) ==
    \A i, j \in DOMAIN body : i < j => ~FLess(body[i].score, body[j].score)

\* the positions 1..n that a paging selects
Positions(paging, n) ==
    IF paging.paged
    THEN {i \in 1..n : paging.offset < i /\ i <= paging.offset + paging.limit}
    ELSE 1..n

\* C13 as stated: a search lists its hits by score, highest first, and for
\* the amount and page of any request the search and the listing of
\* announcements page alike: both page or neither does, with the same offset
\* and limit, so a search answers with as many hits as the listing's paging
\* selects positions among them.
C13_SamePaging ==
    (/\ last.route \in {"articles", "search_articles"}
     /\ last.status = HTTP_200_OK)
        => LET amount == Some(last.req.amount)
               chunk == Some(last.req.chunk)
           IN  /\ AnnouncementPaging(amount, chunk) = SearchPaging(amount, chunk)
               /\ last.route = "search_articles"
                    => /\ ScoreDescending(last.body)
                       /\ Len(last.body) =
                            Cardinality(Positions(
                                AnnouncementPaging(amount, chunk),
                                Cardinality(SearchHits(Db, last.req.query,
                                                       last.req.login))))

\* C13 for the values Python takes as true: with amount # 0 and page # 0
\* the two page alike, and the hits come by score, highest first.
C13_SamePagingWhenTruthy ==
    (/\ last.route \in {"articles", "search_articles"}
     /\ last.status = HTTP_200_OK
     /\ last.req.amount # 0
     /\ last.req.chunk # 0)
        => LET amount == Some(last.req.amount)
               chunk == Some(last.req.chunk)
           IN  /\ AnnouncementPaging(amount, chunk) = SearchPaging(amount, chunk)
               /\ last.route = "search_articles"
                    => /\ ScoreDescending(last.body)
                       /\ Len(last.body) =
                            Cardinality(Positions(
                                AnnouncementPaging(amount, chunk),
                                Cardinality(SearchHits(Db, last.req.query,
                                                       last.req.login))))

\* a search with two hits of different scores, one page holding both
C13_Witness ==
    /\ last.route = "search_articles"
    /\ last.status = HTTP_200_OK
    /\ last.req.amount = 2
    /\ Len(last.body) = 2
    /\ FLess(last.body[2].score, last.body[1].score)

\* the calls of insert_user_images that returned
Inserted(p) ==
    /\ callers[p].op = "insert_user_images"
    /\ callers[p].pc = "done"
    /\ callers[p].exc = "none"

Occurrences(l, id) == Cardinality({i \in DOMAIN l : l[i] = id})
PositionOf(l, id) == CHOOSE i \in DOMAIN l : l[i] = id

\* C14: whatever the interleaving of the callers inserting images, no list
\* holds an id twice, and every id a call of insert_user_images returned is
\* in the list of its user exactly once and in no other list, the ids of one
\* call in the order it returned them.
C14_NoIdLostOrDuplicated ==
    /\ \A u \in UserIds : \A i, j \in DOMAIN redis_lists[u] :
            i # j => redis_lists[u][i] # redis_lists[u][j]
    /\ \A p \in Callers :
          Inserted(p) =>
             LET ids == callers[p].ret
                 l == redis_lists[USER_IMAGES_LIST(callers[p].user_id)]
             IN  /\ \A i \in DOMAIN ids :
                       /\ Occurrences(l, ids[i]) = 1
                       /\ \A u \in UserIds \ {callers[p].user_id} :
                             Occurrences(redis_lists[u], ids[i]) = 0
                 /\ \A i, j \in DOMAIN ids :
                       i < j => PositionOf(l, ids[i]) < PositionOf(l, ids[j])

\* two calls for one user have returned, the id of the one appended between
\* the two ids of the other
C14_Witness ==
    \E p, q \in Callers :
        /\ p # q
        /\ Inserted(p)
        /\ Inserted(q)
        /\ callers[p].user_id = callers[q].user_id
        /\ Len(callers[p].ret) = 2
        /\ Len(callers[q].ret) = 1
        /\ LET l == redis_lists[USER_IMAGES_LIST(callers[p].user_id)]
           IN  /\ PositionOf(l, callers[p].ret[1]) < PositionOf(l, callers[q].ret[1])
               /\ PositionOf(l, callers[q].ret[1]) < PositionOf(l, callers[p].ret[2])

\* caller p takes a step of update_user_image that Redis answers
UpdateStep(p) ==
    /\ Running(p, "update_user_image")
    /\ callers'[p] # callers[p]
    /\ callers'[p].exc # "redis.ConnectionError"

\* C15: a step of update_user_image creates no key and changes no list; and
\* when it asks for a key that does not exist the call returns False, raising
\* nothing, with Redis left as it was.
C15_ReplaceNeverCreates ==
    [][\A p \in Callers :
          UpdateStep(p) =>
             LET key == USER_IMAGE_KEY(callers[p].user_id, callers[p].image_id) IN
             /\ DOMAIN redis_strings' = DOMAIN redis_strings
             /\ redis_lists' = redis_lists
             /\ (callers[p].pc = "exists" /\ ~client_exists(redis_strings, key))
                  => /\ callers'[p].pc = "done"
                     /\ callers'[p].exc = "none"
                     /\ callers'[p].ret = "False"
                     /\ redis_strings' = redis_strings]_vars

\* update_user_image returned False for an image id that another user has,
\* and the key is still not there
C15_Witness ==
    \E p \in Callers :
        /\ callers[p].op = "update_user_image"
        /\ callers[p].pc = "done"
        /\ callers[p].exc = "none"
        /\ callers[p].ret = "False"
        /\ ~client_exists(redis_strings,
                          USER_IMAGE_KEY(callers[p].user_id, callers[p].image_id))
        /\ \E u \in UserIds :
              client_exists(redis_strings, USER_IMAGE_KEY(u, callers[p].image_id))

\* what select_user_images and get_user_image_bytes answer now
Listing(u) ==
    select_user_images(Store(redis_strings, redis_lists, uuid_seq,
                             [NoCall EXCEPT !.op = "select_user_images",
                                            !.user_id = u])).c.ret
BytesOf(u, id) ==
    get_user_image_bytes(Store(redis_strings, redis_lists, uuid_seq,
                               [NoCall EXCEPT !.op = "get_user_image_bytes",
                                              !.user_id = u, !.image_id = id])).c.ret

\* C17: in every state, a batch standing between two images or between the
\* two writes of one image or cut off there, every id select_user_images
\* lists for a user has bytes that get_user_image_bytes returns.
C17_ListedIdsHaveBytes ==
    \A u \in UserIds :
        \A i \in DOMAIN Listing(u) : BytesOf(u, Listing(u)[i]) # <<>>

\* a batch was cut off between the two writes of an image, leaving bytes
\* with no id listed, while another caller stands between its two writes
\* and the list of a user holds an id
C17_Witness ==
    /\ \E p \in Callers :
          /\ callers[p].op = "insert_user_images"
          /\ callers[p].exc = "redis.ConnectionError"
    /\ \E q \in Callers :
          /\ callers[q].op = "insert_user_images"
          /\ callers[q].pc = "rpush"
    /\ \E u \in UserIds :
          /\ Listing(u) # <<>>
          /\ \E id \in 1..uuid_seq :
                /\ BytesOf(u, id) # <<>>
                /\ Occurrences(Listing(u), id) = 0
                /\ \A q \in Callers : callers[q].image_id # id


(***************************************************************************)
(* Sessions of the article repository.                                     *)
(***************************************************************************)
ArticleRepository ==
    {"select_articles_announcement", "select_article", "select_article_full",
     "insert_article", "update_article", "delete_article",
     "select_articles_by_search"}

\* the request answered ended in a call of the article repository
RepositoryCall ==
    /\ last.calls # <<>>
    /\ last.calls[Len(last.calls)] \in ArticleRepository

\* C16: after a call of the article repository returns or raises, every
\* session the call opened is closed; the call opens at most one session of
\* its own, and one exactly unless opening it is what failed.
C16_SessionReleased ==
    RepositoryCall =>
        /\ last.closed = last.opened
        /\ last.opened <= 1
        /\ (last.opened = 0 => last.struck /\ last.raised # "none")

\* a call of the article repository opened its session, raised, and the
\* session is closed
C16_Witness ==
    /\ RepositoryCall
    /\ last.raised # "none"
    /\ last.opened = 1
    /\ last.closed = 1

====
